---- MODULE Spec2Model ----
(***************************************************************************)
(* Model of package workergroup (src/workergroup.go): a Group template of  *)
(* replicated Workers and ordered Cleaners, and the Instances it starts.   *)
(* Every goroutine of the program is a process of the model: the worker    *)
(* goroutines w(i), the collector goroutine Instance.run, and the client   *)
(* goroutines that call Abort and Wait on an Instance.                     *)
(***************************************************************************)
EXTENDS Integers, Sequences, FiniteSets, Bags

(* ---- bounds of the model ---- *)
MaxGoroutines == 3    \* cap on the goroutines Start launches, workers and collectors, over all runs
MaxCleaners == 2      \* cap on the cleaners registered in the Group
ExTotal == 3          \* stands for total = 100 of Example
ExCap == 1            \* stands for the capacity 10 of Example's channels
ExProcs == 2          \* stands for the 4 processors of Example
MaxCalls == 2         \* cap on the Abort / Wait calls in progress at one time

(* ---- values ---- *)
Nil == "nil"                       \* the nil error
NonErrorAbort == "NonErrorAbort"   \* the package-level sentinel
Errors == {"E1", "E2"}             \* errors a Worker may return
Results == {Nil} \cup Errors       \* what a Worker function can return
WorkerFn(x) == <<"w", x>>          \* the Worker function given to the x-th Add
CleanerFn(x) == <<"c", x>>         \* the Cleaner function given to the x-th AddCleaner
DataVals == {"d1"}                 \* data values given to Start, a fresh one for each run
NumCPU == 2                        \* runtime.NumCPU()

VARIABLES
    counts,      \* Group.counts
    argCounts,   \* the count argument of each Add call, in call order
    workers,     \* Group.workers
    cleaners,    \* Group.cleaners
    instances,   \* the Instance structs, in Start order: abort, done, err
    replicas,    \* per Instance, the goroutines w(i) launched by Start
    collector,   \* per Instance, the goroutine in.run: its locals and position
    calls,       \* bag of the client calls in progress: Abort past its select, Wait blocked
    panicked,    \* a goroutine panicked (close of closed channel, nil call): the program is dead
    rtnLog,      \* per Instance, the values received from rtn, in arrival order
    cleanLog,    \* per Instance, the begin/end events of the cleaner calls
    closes,      \* per Instance, the close() operations executed on abort and on done
    waitRet,     \* per Instance, the values the Wait calls returned
    abortOrdered, \* per Instance, an Abort() call returned while done was still open
    doneRet,     \* per Instance, what the last Done() call returned, "none" before the first
    ex           \* the channels and locals of the Workers of Example (example_test.go)

vars == <<counts, argCounts, workers, cleaners, instances, replicas, collector, calls,
          panicked, rtnLog, cleanLog, closes, waitRet, abortOrdered, doneRet, ex>>

groupVars == <<counts, argCounts, workers, cleaners>>
auxVars == <<doneRet, ex>>
logVars == <<rtnLog, cleanLog, waitRet>>

Ids == 1..Len(instances)

\* Worker goroutines launched so far, over all Instances.
RECURSIVE Launched(_)
Launched(rs) == IF rs = <<>> THEN 0 ELSE Len(rs[1]) + Launched(Tail(rs))

RECURSIVE SumSeq(_)
SumSeq(s) == IF s = <<>> THEN 0 ELSE s[1] + SumSeq(Tail(s))

(* ---- Group ---- *)

\* AddCount without the substitution of runtime.NumCPU().
AddCountAsGiven(count) == count

\* Group.Add: count <= 0 is replaced by runtime.NumCPU().
AddCount(count) == IF count <= 0 THEN NumCPU ELSE count

Add(count, worker) ==
    /\ ~panicked
    /\ SumSeq(counts) + AddCount(count) < MaxGoroutines
    /\ workers' = Append(workers, worker)
    /\ counts' = Append(counts, AddCount(count))
    /\ argCounts' = Append(argCounts, count)
    /\ UNCHANGED <<auxVars, cleaners, instances, replicas, collector, calls, panicked,
                   rtnLog, cleanLog, closes, waitRet, abortOrdered>>

AddCleaner(clean) ==
    /\ ~panicked
    /\ Len(cleaners) < MaxCleaners
    /\ cleaners' = Append(cleaners, clean)
    /\ UNCHANGED <<auxVars, counts, argCounts, workers, instances, replicas, collector, calls, panicked,
                   rtnLog, cleanLog, closes, waitRet, abortOrdered>>

\* Launch with one goroutine per Worker, whatever its count.
RECURSIVE LaunchOnePerWorker(_, _)
LaunchOnePerWorker(i, data) ==
    IF i > Len(workers) THEN <<>>
    ELSE <<[i |-> i, pc |-> "start", fn |-> Nil, data |-> data, val |-> Nil]>>
         \o LaunchOnePerWorker(i + 1, data)

\* The goroutines "go w(i)" of Start's nested loop, in launch order, from
\* worker index i on: counts[i] of them for each i.
RECURSIVE Launch(_, _)
Launch(i, data) ==
    IF i > Len(workers) THEN <<>>
    ELSE [j \in 1..counts[i] |->
             [i |-> i, pc |-> "start", fn |-> Nil, data |-> data, val |-> Nil]]
         \o Launch(i + 1, data)

\* LoopPc with the receive loop entered once more (i <= total).
LoopPcOneMore(i, total, c, cl) ==
    IF i <= total THEN "recv"
    ELSE IF c <= Len(cl) THEN "clean"
    ELSE "final"

\* LoopPc with the receive loop one iteration short (i < total-1).
LoopPcShort(i, total, c, cl) ==
    IF i + 1 < total THEN "recv"
    ELSE IF c <= Len(cl) THEN "clean"
    ELSE "final"

\* Position of in.run at the head of its first loop (i < total), or past it
\* at the head of the cleaner loop, or past that at the final select.
LoopPc(i, total, c, cl) ==
    IF i < total THEN "recv"
    ELSE IF c <= Len(cl) THEN "clean"
    ELSE "final"

\* Group.Start: a fresh Instance, one goroutine per replica, one collector
\* that gets data, the cleaners slice and the total as arguments.
StartBody(data) ==
    /\ ~panicked
    /\ LET launched == Launch(1, data)
           total == Len(launched)
       IN  /\ instances' = Append(instances, [abort |-> FALSE, done |-> FALSE, err |-> Nil])
           /\ replicas' = Append(replicas, launched)
           /\ collector' = Append(collector,
                 [pc |-> LoopPc(0, total, 1, cleaners), i |-> 0, total |-> total,
                  cleaners |-> cleaners, c |-> 1, data |-> data])
    /\ rtnLog' = Append(rtnLog, <<>>)
    /\ cleanLog' = Append(cleanLog, <<>>)
    /\ closes' = Append(closes, [abort |-> 0, done |-> 0])
    /\ waitRet' = Append(waitRet, {})
    /\ abortOrdered' = Append(abortOrdered, FALSE)
    /\ doneRet' = Append(doneRet, "none")
    /\ UNCHANGED <<groupVars, calls, panicked, ex>>

\* Start as the model's clients call it: once per data value, and within
\* the goroutine budget.
Start(data) ==
    /\ \A n \in Ids : collector[n].data # data
    /\ Launched(replicas) + Len(instances) + SumSeq(counts) < MaxGoroutines
    /\ StartBody(data)

(* ---- worker goroutines: w(i) == rtn <- wg.workers[i](in.abort, data) ---- *)

\* len(wg.workers) when Start made Instance n: the replicas are launched in
\* index order, so it is the index of the last one.
LenAtStart(n) == IF replicas[n] = <<>> THEN 0 ELSE replicas[n][Len(replicas[n])].i

\* Whether a replica of Instance n can read wg.workers[i] as nil: FALSE, and
\* also TRUE once an Add followed the Start.
WorkerReadNil(n) == IF Len(workers) > LenAtStart(n) THEN {FALSE, TRUE} ELSE {FALSE}

\* The goroutine starts running: it reads wg.workers[i] and calls it with
\* in.abort and data.  What the Worker does is up to the client: it may poll
\* abort, and it may call in.Abort() itself, which is an Abort call like any
\* other (AbortSelect, AbortClose) made while the replica is at "run".
\*
\* The read of wg.workers happens in the goroutine, not in Start, and nothing
\* orders it with an Add the client makes after Start returned: a data race.
\* Add's append moves the slice to a new array (it does at every length the
\* bounds reach), and the racing read of element i of that array sees either
\* the copied function or the zero value the array was allocated with; calling
\* a nil function panics.
WorkerCall(n, r) ==
    /\ ~panicked
    /\ replicas[n][r].pc = "start"
    /\ \E isNil \in WorkerReadNil(n) :
          IF isNil
          THEN /\ replicas' = [replicas EXCEPT ![n][r].pc = "panic"]
               /\ panicked' = TRUE
          ELSE /\ replicas' = [replicas EXCEPT ![n][r].pc = "run",
                                               ![n][r].fn = workers[replicas[n][r].i]]
               /\ UNCHANGED panicked
    /\ UNCHANGED <<auxVars, groupVars, instances, collector, calls,
                   logVars, closes, abortOrdered>>

\* The Worker function returns v; the goroutine now blocks sending v on rtn.
WorkerReturn(n, r, v) ==
    /\ ~panicked
    /\ replicas[n][r].pc = "run"
    /\ replicas' = [replicas EXCEPT ![n][r].pc = "send", ![n][r].val = v]
    /\ UNCHANGED <<auxVars, groupVars, instances, collector, calls, panicked,
                   logVars, closes, abortOrdered>>

(* ---- the collector: Instance.run ---- *)

\* End of one iteration of the receive loop: i++ and the loop test.
NextIter(col) ==
    [col EXCEPT !.i = col.i + 1,
                !.pc = LoopPc(col.i + 1, col.total, col.c, col.cleaners)]

\* StoreErr keeping the first error instead of the last.
StoreErrFirst(old, err) == IF err # Nil /\ old = Nil THEN err ELSE old

\* in.err after "err := <-rtn; if err != nil { in.err = err ... }".
StoreErr(old, err) == IF err # Nil THEN err ELSE old

\* A goroutine whose send completed has returned: its locals are gone.
Exited(rep) == [rep EXCEPT !.pc = "exit", !.fn = Nil, !.val = Nil]

\* err := <-rtn, a rendezvous with the sender r on the unbuffered channel,
\* and the assignment in.err = err when err is non-nil.
RunReceive(n, r) ==
    /\ ~panicked
    /\ collector[n].pc = "recv"
    /\ replicas[n][r].pc = "send"
    /\ LET err == replicas[n][r].val
       IN  /\ replicas' = [replicas EXCEPT ![n][r] = Exited(@)]
           /\ rtnLog' = [rtnLog EXCEPT ![n] = Append(@, err)]
           /\ instances' = [instances EXCEPT ![n].err = StoreErr(@, err)]
           /\ collector' = [collector EXCEPT ![n] =
                 IF err # Nil THEN [@ EXCEPT !.pc = "select"] ELSE NextIter(@)]
    /\ UNCHANGED <<auxVars, groupVars, calls, panicked, cleanLog, closes, waitRet, abortOrdered>>

\* RunSelect with no abort ordered: the error is stored and the loop goes on.
RunSelectNoAbort(n) ==
    /\ ~panicked
    /\ collector[n].pc = "select"
    /\ collector' = [collector EXCEPT ![n] = NextIter(@)]
    /\ UNCHANGED <<auxVars, groupVars, instances, replicas, calls, panicked,
                   logVars, closes, abortOrdered>>

\* select { case <-in.abort: default: ... } after an error was stored.
RunSelect(n) ==
    /\ ~panicked
    /\ collector[n].pc = "select"
    /\ collector' = [collector EXCEPT ![n] =
          IF instances[n].abort THEN NextIter(@) ELSE [@ EXCEPT !.pc = "close"]]
    /\ UNCHANGED <<auxVars, groupVars, instances, replicas, calls, panicked,
                   logVars, closes, abortOrdered>>

\* RunClose closing in.done where in.abort was meant.
RunCloseWrongChan(n) ==
    /\ ~panicked
    /\ collector[n].pc = "close"
    /\ closes' = [closes EXCEPT ![n].done = @ + 1]
    /\ IF instances[n].done
       THEN /\ panicked' = TRUE
            /\ UNCHANGED <<instances, collector>>
       ELSE /\ instances' = [instances EXCEPT ![n].done = TRUE]
            /\ collector' = [collector EXCEPT ![n] = NextIter(@)]
            /\ UNCHANGED panicked
    /\ UNCHANGED <<auxVars, groupVars, replicas, calls, logVars, abortOrdered>>

\* close(in.abort) in the default branch: closing a closed channel panics.
RunClose(n) ==
    /\ ~panicked
    /\ collector[n].pc = "close"
    /\ closes' = [closes EXCEPT ![n].abort = @ + 1]
    /\ IF instances[n].abort
       THEN /\ panicked' = TRUE
            /\ UNCHANGED <<instances, collector>>
       ELSE /\ instances' = [instances EXCEPT ![n].abort = TRUE]
            /\ collector' = [collector EXCEPT ![n] = NextIter(@)]
            /\ UNCHANGED panicked
    /\ UNCHANGED <<auxVars, groupVars, replicas, calls, logVars, abortOrdered>>

\* c(data) is called for the next cleaner of the slice run was given.
CleanerCall(n) ==
    /\ ~panicked
    /\ collector[n].pc = "clean"
    /\ cleanLog' = [cleanLog EXCEPT ![n] =
          Append(@, <<"begin", collector[n].cleaners[collector[n].c], collector[n].data>>)]
    /\ collector' = [collector EXCEPT ![n].pc = "cleaning"]
    /\ UNCHANGED <<auxVars, groupVars, instances, replicas, calls, panicked,
                   rtnLog, closes, waitRet, abortOrdered>>

\* The cleaner returns; the range loop goes to the next one.
CleanerReturn(n) ==
    /\ ~panicked
    /\ collector[n].pc = "cleaning"
    /\ cleanLog' = [cleanLog EXCEPT ![n] =
          Append(@, <<"end", collector[n].cleaners[collector[n].c], collector[n].data>>)]
    /\ collector' = [collector EXCEPT ![n] =
          [@ EXCEPT !.c = @ + 1,
                    !.pc = LoopPc(collector[n].i, collector[n].total,
                                  collector[n].c + 1, collector[n].cleaners)]]
    /\ UNCHANGED <<auxVars, groupVars, instances, replicas, calls, panicked,
                   rtnLog, closes, waitRet, abortOrdered>>

\* FinalErr without the "in.err == nil" test: an abort clobbers the error.
FinalErrClobber(in) == IF in.abort THEN NonErrorAbort ELSE in.err

\* FinalErr without the test of abort: every clean run ends in NonErrorAbort.
FinalErrNoSelect(in) == IF in.err = Nil THEN NonErrorAbort ELSE in.err

\* in.err after the final select: NonErrorAbort when abort is closed and no
\* error was stored.
FinalErr(in) == IF in.abort /\ in.err = Nil THEN NonErrorAbort ELSE in.err

\* "Make sure that there is an error associated with every abort."
RunFinal(n) ==
    /\ ~panicked
    /\ collector[n].pc = "final"
    /\ instances' = [instances EXCEPT ![n].err = FinalErr(instances[n])]
    /\ collector' = [collector EXCEPT ![n].pc = "closedone"]
    /\ UNCHANGED <<auxVars, groupVars, replicas, calls, panicked, logVars, closes, abortOrdered>>

\* RunCloseDone that also replaces in.abort by a fresh, open channel.
RunCloseDoneRemakesAbort(n) ==
    /\ ~panicked
    /\ collector[n].pc = "closedone"
    /\ closes' = [closes EXCEPT ![n].done = @ + 1]
    /\ IF instances[n].done
       THEN /\ panicked' = TRUE
            /\ UNCHANGED <<instances, collector>>
       ELSE /\ instances' = [instances EXCEPT ![n].done = TRUE, ![n].abort = FALSE]
            /\ collector' = [collector EXCEPT ![n].pc = "exit"]
            /\ UNCHANGED panicked
    /\ UNCHANGED <<auxVars, groupVars, replicas, calls, logVars, abortOrdered>>

\* close(in.done), the last statement of run.
RunCloseDone(n) ==
    /\ ~panicked
    /\ collector[n].pc = "closedone"
    /\ closes' = [closes EXCEPT ![n].done = @ + 1]
    /\ IF instances[n].done
       THEN /\ panicked' = TRUE
            /\ UNCHANGED <<instances, collector>>
       ELSE /\ instances' = [instances EXCEPT ![n].done = TRUE]
            /\ collector' = [collector EXCEPT ![n].pc = "exit"]
            /\ UNCHANGED panicked
    /\ UNCHANGED <<auxVars, groupVars, replicas, calls, logVars, abortOrdered>>

(* ---- client goroutines: Instance.Abort and Instance.Wait ---- *)

AbortCall(n) == [op |-> "abort_close", inst |-> n]
WaitCall(n) == [op |-> "wait", inst |-> n]
One(call) == SetToBag({call})

\* Abort's select: the receive case when abort is closed (Abort returns, no
\* effect), else the default branch, which will close the channel.
AbortSelect(n) ==
    /\ ~panicked
    /\ BagCardinality(calls) < MaxCalls
    /\ IF instances[n].abort
       THEN /\ abortOrdered' = [abortOrdered EXCEPT ![n] = @ \/ ~instances[n].done]
            /\ UNCHANGED calls
       ELSE /\ calls' = calls (+) One(AbortCall(n))
            /\ UNCHANGED abortOrdered
    /\ UNCHANGED <<auxVars, groupVars, instances, replicas, collector, panicked, logVars, closes>>

\* AbortClose storing NonErrorAbort itself when no error is stored.
AbortCloseSetsErr(n) ==
    /\ ~panicked
    /\ BagIn(AbortCall(n), calls)
    /\ closes' = [closes EXCEPT ![n].abort = @ + 1]
    /\ IF instances[n].abort
       THEN /\ panicked' = TRUE
            /\ UNCHANGED <<instances, calls, abortOrdered>>
       ELSE /\ instances' = [instances EXCEPT ![n].abort = TRUE,
                                              ![n].err = FinalErr([abort |-> TRUE, err |-> @])]
            /\ calls' = calls (-) One(AbortCall(n))
            /\ abortOrdered' = [abortOrdered EXCEPT ![n] = @ \/ ~instances[n].done]
            /\ UNCHANGED panicked
    /\ UNCHANGED <<auxVars, groupVars, replicas, collector, logVars>>

\* AbortClose on an abort channel that all Instances of the Group share.
AbortCloseShared(n) ==
    /\ ~panicked
    /\ BagIn(AbortCall(n), calls)
    /\ closes' = [closes EXCEPT ![n].abort = @ + 1]
    /\ IF instances[n].abort
       THEN /\ panicked' = TRUE
            /\ UNCHANGED <<instances, calls, abortOrdered>>
       ELSE /\ instances' = [m \in Ids |-> [instances[m] EXCEPT !.abort = TRUE]]
            /\ calls' = calls (-) One(AbortCall(n))
            /\ abortOrdered' = [abortOrdered EXCEPT ![n] = @ \/ ~instances[n].done]
            /\ UNCHANGED panicked
    /\ UNCHANGED <<auxVars, groupVars, replicas, collector, logVars>>

\* close(in.abort) in Abort's default branch, then Abort returns; closing a
\* closed channel panics.
AbortClose(n) ==
    /\ ~panicked
    /\ BagIn(AbortCall(n), calls)
    /\ closes' = [closes EXCEPT ![n].abort = @ + 1]
    /\ IF instances[n].abort
       THEN /\ panicked' = TRUE
            /\ UNCHANGED <<instances, calls, abortOrdered>>
       ELSE /\ instances' = [instances EXCEPT ![n].abort = TRUE]
            /\ calls' = calls (-) One(AbortCall(n))
            /\ abortOrdered' = [abortOrdered EXCEPT ![n] = @ \/ ~instances[n].done]
            /\ UNCHANGED panicked
    /\ UNCHANGED <<auxVars, groupVars, replicas, collector, logVars>>

\* Wait is called: the caller blocks on <-in.done.
WaitBlock(n) ==
    /\ ~panicked
    /\ BagCardinality(calls) < MaxCalls
    /\ calls' = calls (+) One(WaitCall(n))
    /\ UNCHANGED <<auxVars, groupVars, instances, replicas, collector, panicked,
                   logVars, closes, abortOrdered>>

\* WaitReturn without the receive from done: Wait returns in.err at once.
WaitReturnNoBlock(n) ==
    /\ ~panicked
    /\ BagIn(WaitCall(n), calls)
    /\ waitRet' = [waitRet EXCEPT ![n] = @ \cup {instances[n].err}]
    /\ calls' = calls (-) One(WaitCall(n))
    /\ UNCHANGED <<auxVars, groupVars, instances, replicas, collector, panicked,
                   rtnLog, cleanLog, closes, abortOrdered>>

\* <-in.done succeeds once done is closed, and Wait returns in.err.
WaitReturn(n) ==
    /\ ~panicked
    /\ BagIn(WaitCall(n), calls)
    /\ instances[n].done
    /\ waitRet' = [waitRet EXCEPT ![n] = @ \cup {instances[n].err}]
    /\ calls' = calls (-) One(WaitCall(n))
    /\ UNCHANGED <<auxVars, groupVars, instances, replicas, collector, panicked,
                   rtnLog, cleanLog, closes, abortOrdered>>

\* DoneCall with the select on in.abort instead of in.done.
DoneCallOnAbort(n) ==
    /\ ~panicked
    /\ doneRet' = [doneRet EXCEPT ![n] = IF instances[n].abort THEN "true" ELSE "false"]
    /\ UNCHANGED <<groupVars, instances, replicas, collector, calls, panicked,
                   logVars, closes, abortOrdered, ex>>

\* Done: a select on done with a default branch; it returns at once.
DoneCall(n) ==
    /\ ~panicked
    /\ doneRet' = [doneRet EXCEPT ![n] = IF instances[n].done THEN "true" ELSE "false"]
    /\ UNCHANGED <<groupVars, instances, replicas, collector, calls, panicked,
                   logVars, closes, abortOrdered, ex>>

\* Outside Example its channels and locals do not exist.
ExIdle == "none"

(* ---- specification ---- *)

\* wg := new(Group); no Instance yet; the clients are idle.
Init ==
    /\ counts = <<>>
    /\ argCounts = <<>>
    /\ workers = <<>>
    /\ cleaners = <<>>
    /\ instances = <<>>
    /\ replicas = <<>>
    /\ collector = <<>>
    /\ calls = EmptyBag
    /\ panicked = FALSE
    /\ rtnLog = <<>>
    /\ cleanLog = <<>>
    /\ closes = <<>>
    /\ waitRet = <<>>
    /\ abortOrdered = <<>>
    /\ doneRet = <<>>
    /\ ex = ExIdle

Next ==
    \/ \E count \in -1..MaxGoroutines : Add(count, WorkerFn(Len(workers) + 1))
    \/ AddCleaner(CleanerFn(Len(cleaners) + 1))
    \/ \E data \in DataVals : Start(data)
    \/ \E n \in Ids : \E r \in 1..Len(replicas[n]) : WorkerCall(n, r)
    \/ \E n \in Ids : \E r \in 1..Len(replicas[n]) : \E v \in Results : WorkerReturn(n, r, v)
    \/ \E n \in Ids : \E r \in 1..Len(replicas[n]) : RunReceive(n, r)
    \/ \E n \in Ids : RunSelect(n)
    \/ \E n \in Ids : RunClose(n)
    \/ \E n \in Ids : CleanerCall(n)
    \/ \E n \in Ids : CleanerReturn(n)
    \/ \E n \in Ids : RunFinal(n)
    \/ \E n \in Ids : RunCloseDone(n)
    \/ \E n \in Ids : AbortSelect(n)
    \/ \E n \in Ids : AbortClose(n)
    \/ \E n \in Ids : WaitBlock(n)
    \/ \E n \in Ids : WaitReturn(n)

Spec == Init /\ [][Next]_vars

\* A client that sets the Group up, starts it, and polls Done at any moment
\* besides calling Abort and Wait.
NextDone ==
    \/ instances = <<>> /\ \E count \in -1..MaxGoroutines : Add(count, WorkerFn(Len(workers) + 1))
    \/ instances = <<>> /\ AddCleaner(CleanerFn(Len(cleaners) + 1))
    \/ \E data \in DataVals : Start(data)
    \/ \E n \in Ids : \E r \in 1..Len(replicas[n]) : WorkerCall(n, r)
    \/ \E n \in Ids : \E r \in 1..Len(replicas[n]) : \E v \in Results : WorkerReturn(n, r, v)
    \/ \E n \in Ids : \E r \in 1..Len(replicas[n]) : RunReceive(n, r)
    \/ \E n \in Ids : RunSelect(n)
    \/ \E n \in Ids : RunClose(n)
    \/ \E n \in Ids : CleanerCall(n)
    \/ \E n \in Ids : CleanerReturn(n)
    \/ \E n \in Ids : RunFinal(n)
    \/ \E n \in Ids : RunCloseDone(n)
    \/ \E n \in Ids : AbortSelect(n)
    \/ \E n \in Ids : AbortClose(n)
    \/ \E n \in Ids : WaitBlock(n)
    \/ \E n \in Ids : WaitReturn(n)
    \/ \E n \in Ids : DoneCall(n)

SpecDone == Init /\ [][NextDone]_vars

\* A client that sets the Group up, starts it, and starts it a second time,
\* on other data, while the first run may still be going; the budget of the
\* second Start counts the worker goroutines.
DataTwo == "d2"

StartSecond ==
    /\ Len(instances) = 1
    /\ Launched(replicas) + SumSeq(counts) < MaxGoroutines
    /\ StartBody(DataTwo)

NextTwo ==
    \/ instances = <<>> /\ \E count \in -1..MaxGoroutines : Add(count, WorkerFn(Len(workers) + 1))
    \/ instances = <<>> /\ AddCleaner(CleanerFn(Len(cleaners) + 1))
    \/ \E data \in DataVals : Start(data)
    \/ StartSecond
    \/ \E n \in Ids : \E r \in 1..Len(replicas[n]) : WorkerCall(n, r)
    \/ \E n \in Ids : \E r \in 1..Len(replicas[n]) : \E v \in Results : WorkerReturn(n, r, v)
    \/ \E n \in Ids : \E r \in 1..Len(replicas[n]) : RunReceive(n, r)
    \/ \E n \in Ids : RunSelect(n)
    \/ \E n \in Ids : RunClose(n)
    \/ \E n \in Ids : CleanerCall(n)
    \/ \E n \in Ids : CleanerReturn(n)
    \/ \E n \in Ids : RunFinal(n)
    \/ \E n \in Ids : RunCloseDone(n)
    \/ \E n \in Ids : AbortSelect(n)
    \/ \E n \in Ids : AbortClose(n)
    \/ \E n \in Ids : WaitBlock(n)
    \/ \E n \in Ids : WaitReturn(n)

SpecTwo == Init /\ [][NextTwo]_vars

TypeOK ==
    /\ Len(counts) = Len(workers)
    /\ Len(counts) = Len(argCounts)
    /\ \A n \in Ids : instances[n].err \in Results \cup {NonErrorAbort}
    /\ \A n \in Ids : doneRet[n] \in {"none", "false", "true"}
    /\ Len(doneRet) = Len(instances)

\* Fair scheduling of the goroutines: a step of a worker goroutine, of a
\* collector or of a client inside Abort or Wait that stays possible is
\* taken; Worker and Cleaner functions that were called return.  The client
\* is not obliged to call Add, AddCleaner, Start, Abort or Wait.
Fairness ==
    /\ \A n \in {1} : \A r \in 1..MaxGoroutines :
          /\ WF_vars(n \in Ids /\ r \in 1..Len(replicas[n]) /\ WorkerCall(n, r))
          /\ WF_vars(\E v \in Results :
                        n \in Ids /\ r \in 1..Len(replicas[n]) /\ WorkerReturn(n, r, v))
    /\ WF_vars(\E n \in Ids : \E r \in 1..Len(replicas[n]) : RunReceive(n, r))
    /\ WF_vars(\E n \in Ids : RunSelect(n))
    /\ WF_vars(\E n \in Ids : RunClose(n))
    /\ WF_vars(\E n \in Ids : CleanerCall(n))
    /\ WF_vars(\E n \in Ids : CleanerReturn(n))
    /\ WF_vars(\E n \in Ids : RunFinal(n))
    /\ WF_vars(\E n \in Ids : RunCloseDone(n))
    /\ WF_vars(\E n \in Ids : AbortClose(n))
    /\ WF_vars(\E n \in Ids : WaitReturn(n))

FairSpec == Spec /\ Fairness

(* ---- Example (example_test.go) ---- *)

Producer == WorkerFn("producer")
Processor == WorkerFn("processor")
Consumer == WorkerFn("consumer")
Checker == CleanerFn("checker")
AllReceived == "All results received!"
SomeMissing == "Some results were never received!"

\* The state when Example calls wg.Run(nil): the three Add calls and the
\* AddCleaner call are done, both channels are empty and open, no flag of
\* results is set, nothing is printed.  loc[r] holds the locals of the Worker
\* that replica r runs: where it stands, and its i (producer, processor) or
\* its j (consumer).
InitEx ==
    /\ counts = <<1, ExProcs, 1>>
    /\ argCounts = <<1, ExProcs, 1>>
    /\ workers = <<Producer, Processor, Consumer>>
    /\ cleaners = <<Checker>>
    /\ instances = <<>> /\ replicas = <<>> /\ collector = <<>>
    /\ calls = EmptyBag
    /\ panicked = FALSE
    /\ rtnLog = <<>> /\ cleanLog = <<>> /\ closes = <<>> /\ waitRet = <<>>
    /\ abortOrdered = <<>> /\ doneRet = <<>>
    /\ ex = [in |-> <<>>, inClosed |-> FALSE, out |-> <<>>,
             results |-> [k \in 0..(ExTotal - 1) |-> FALSE],
             loc |-> [r \in 1..(ExProcs + 2) |-> [pc |-> "select", v |-> 0]],
             output |-> <<>>]

runVars == <<groupVars, instances, replicas, collector, calls, panicked, logVars,
             closes, abortOrdered, doneRet>>

\* wg.Run(nil): Start(nil), then Wait on the Instance it returns.
ExRun == instances = <<>> /\ StartBody(Nil)

ExWait == Len(instances) = 1 /\ calls = EmptyBag /\ waitRet[1] = {} /\ WaitBlock(1)

\* Replica r is inside the Worker fn, at pc.
ExAt(r, fn, pc) ==
    /\ Len(instances) = 1
    /\ r \in 1..Len(replicas[1])
    /\ replicas[1][r].pc = "run"
    /\ replicas[1][r].fn = fn
    /\ ex.loc[r].pc = pc

\* The producer's select on abort with a default branch.
ProducerSelect(r) ==
    /\ ExAt(r, Producer, "select")
    /\ ex' = [ex EXCEPT !.loc[r].pc = IF instances[1].abort THEN "return" ELSE "send"]
    /\ UNCHANGED runVars

\* in <- i, which blocks while the buffer is full; then i++ and the loop test.
ProducerSend(r) ==
    /\ ExAt(r, Producer, "send")
    /\ Len(ex.in) < ExCap
    /\ ex' = [ex EXCEPT !.in = Append(@, ex.loc[r].v),
                        !.loc[r].v = @ + 1,
                        !.loc[r].pc = IF ex.loc[r].v + 1 < ExTotal THEN "select" ELSE "close"]
    /\ UNCHANGED runVars
\* ProducerClose that leaves in open.
ProducerReturnsWithoutClose(r) ==
    /\ ExAt(r, Producer, "close")
    /\ ex' = [ex EXCEPT !.loc[r].pc = "return"]
    /\ UNCHANGED runVars

\* close(in) after the loop.
ProducerClose(r) ==
    /\ ExAt(r, Producer, "close")
    /\ ex' = [ex EXCEPT !.inClosed = TRUE, !.loc[r].pc = "return"]
    /\ UNCHANGED runVars

\* The cases of a select on abort and the channel ch that are ready: abort
\* when it is closed, ch when it holds a value or is closed.
Ready(ch, closed) ==
    (IF instances[1].abort THEN {"abort"} ELSE {})
        \cup (IF ch # <<>> \/ closed THEN {"chan"} ELSE {})

\* A processor's select on abort and in: it returns on abort and on a closed,
\* drained in, and otherwise holds the value it received.
ProcessorSelect(r) ==
    /\ ExAt(r, Processor, "select")
    /\ \E case \in Ready(ex.in, ex.inClosed) :
          ex' = IF case = "abort" \/ ex.in = <<>>
                THEN [ex EXCEPT !.loc[r].pc = "return"]
                ELSE [ex EXCEPT !.in = Tail(@),
                                !.loc[r].v = Head(ex.in),
                                !.loc[r].pc = "send"]
    /\ UNCHANGED runVars

\* out <- i * 2, which blocks while the buffer is full.
ProcessorSend(r) ==
    /\ ExAt(r, Processor, "send")
    /\ Len(ex.out) < ExCap
    /\ ex' = [ex EXCEPT !.out = Append(@, ex.loc[r].v * 2), !.loc[r].pc = "select"]
    /\ UNCHANGED runVars

\* The consumer's select on abort and out (which nobody closes): it sets
\* results[i/2] for the value it received; then j++ and the loop test.
ConsumerSelect(r) ==
    /\ ExAt(r, Consumer, "select")
    /\ \E case \in Ready(ex.out, FALSE) :
          ex' = IF case = "abort"
                THEN [ex EXCEPT !.loc[r].pc = "return"]
                ELSE [ex EXCEPT !.out = Tail(@),
                                !.results[Head(ex.out) \div 2] = TRUE,
                                !.loc[r].v = @ + 1,
                                !.loc[r].pc = IF ex.loc[r].v + 1 < ExTotal
                                              THEN "select" ELSE "return"]
    /\ UNCHANGED runVars

\* "return nil" of any of the three Workers.
ExWorkerReturn(r) ==
    /\ Len(instances) = 1
    /\ r \in 1..Len(replicas[1])
    /\ ex.loc[r].pc = "return"
    /\ WorkerReturn(1, r, Nil)

\* The body of the cleaner: it prints one of the two lines.
ExCleaner ==
    /\ Len(instances) = 1
    /\ collector[1].pc = "cleaning"
    /\ ex.output = <<>>
    /\ ex' = [ex EXCEPT !.output =
                 <<IF \A k \in DOMAIN ex.results : ex.results[k]
                   THEN AllReceived ELSE SomeMissing>>]
    /\ UNCHANGED runVars

ExCleanerReturn == Len(instances) = 1 /\ ex.output # <<>> /\ CleanerReturn(1)

\* No Worker of Example returns an error and nothing calls Abort, so the
\* steps of run and Abort that handle those are not part of the run.
NextEx ==
    \/ ExRun
    \/ ExWait
    \/ \E r \in 1..(ExProcs + 2) : Len(instances) = 1 /\ WorkerCall(1, r)
    \/ \E r \in 1..(ExProcs + 2) : ProducerSelect(r)
    \/ \E r \in 1..(ExProcs + 2) : ProducerSend(r)
    \/ \E r \in 1..(ExProcs + 2) : ProducerClose(r)
    \/ \E r \in 1..(ExProcs + 2) : ProcessorSelect(r)
    \/ \E r \in 1..(ExProcs + 2) : ProcessorSend(r)
    \/ \E r \in 1..(ExProcs + 2) : ConsumerSelect(r)
    \/ \E r \in 1..(ExProcs + 2) : ExWorkerReturn(r)
    \/ \E r \in 1..(ExProcs + 2) : Len(instances) = 1 /\ RunReceive(1, r)
    \/ Len(instances) = 1 /\ CleanerCall(1)
    \/ ExCleaner
    \/ ExCleanerReturn
    \/ Len(instances) = 1 /\ RunFinal(1)
    \/ Len(instances) = 1 /\ RunCloseDone(1)
    \/ Len(instances) = 1 /\ WaitReturn(1)

\* Fair scheduling: while some goroutine can take a step, one is taken.
SpecEx == InitEx /\ [][NextEx]_vars /\ WF_vars(NextEx)

(* ---- properties ---- *)

IsPrefix(a, b) == Len(a) <= Len(b) /\ SubSeq(b, 1, Len(a)) = a

\* The calls of the cleaners cl, one after the other, each on data.
RECURSIVE CleanerEvents(_, _)
CleanerEvents(cl, data) ==
    IF cl = <<>> THEN <<>>
    ELSE <<<<"begin", cl[1], data>>, <<"end", cl[1], data>>>> \o CleanerEvents(Tail(cl), data)

\* The Worker function of replica r of Instance n has returned.
HasReturned(n, r) == replicas[n][r].pc \in {"send", "exit"}
AllReturned(n) == \A r \in 1..Len(replicas[n]) : HasReturned(n, r)
AllExited(n) == \A r \in 1..Len(replicas[n]) : replicas[n][r].pc = "exit"

\* The non-nil errors the collector of Instance n received, in arrival order.
ErrsOf(log) == SelectSeq(log, LAMBDA v : v # Nil)
LastErr(log) == ErrsOf(log)[Len(ErrsOf(log))]

\* C1: in every Instance the cleaner calls made so far are an initial part
\* of "first cleaner begins, ends, second begins, ends, ..." over the
\* cleaners in the order the Group got them; none begins before every
\* replica's Worker has returned; and once done is closed each cleaner
\* registered at Start was called exactly once, however the run ended.
C1_CleanersOnceInOrderAfterWorkers ==
    \A n \in Ids :
        /\ IsPrefix(collector[n].cleaners, cleaners)
        /\ IsPrefix(cleanLog[n], CleanerEvents(collector[n].cleaners, collector[n].data))
        /\ cleanLog[n] # <<>> => AllReturned(n)
        /\ instances[n].done =>
              cleanLog[n] = CleanerEvents(collector[n].cleaners, collector[n].data)

\* A run that a worker error ended, with two distinct cleaners called.
C1_Witness ==
    \E n \in Ids :
        /\ instances[n].done
        /\ instances[n].err \in Errors
        /\ Len(replicas[n]) = 2
        /\ cleanLog[n] = CleanerEvents(<<CleanerFn(1), CleanerFn(2)>>, collector[n].data)

\* C2: done is closed only by the last step of the collector, once; while
\* it is closed every replica has delivered its result and every cleaner
\* has finished; and no Wait call has returned while it is open.
C2_DoneState ==
    \A n \in Ids :
        /\ closes[n].done = (IF instances[n].done THEN 1 ELSE 0)
        /\ instances[n].done =>
              /\ collector[n].pc = "exit"
              /\ AllExited(n)
              /\ cleanLog[n] = CleanerEvents(collector[n].cleaners, collector[n].data)
        /\ waitRet[n] # {} => instances[n].done

C2_DoneStep ==
    \A n \in Ids :
        instances[n].done # instances'[n].done =>
            /\ collector[n].pc = "closedone"
            /\ collector'[n].pc = "exit"
            /\ instances'[n].done

C2_DoneOnceByCollectorAfterAll == [](C2_DoneState) /\ [][C2_DoneStep]_vars

\* Abort was called early and again, and the run still closed done only at
\* its end.
C2_Witness ==
    \E n \in Ids :
        /\ instances[n].done
        /\ abortOrdered[n]
        /\ Len(replicas[n]) = 2
        /\ rtnLog[n] = <<Nil, Nil>>
        /\ instances[n].err = NonErrorAbort

\* C3: a Wait call returns only when done is closed, and all the values
\* Wait calls on one Instance returned are one value, the Instance's err.
C3_WaitAfterDoneSameValue ==
    \A n \in Ids :
        waitRet[n] # {} => instances[n].done /\ waitRet[n] = {instances[n].err}

\* A Wait returned an error, and two more Wait calls are in progress.
C3_Witness ==
    \E n \in Ids :
        /\ waitRet[n] = {"E1"}
        /\ CopiesIn(WaitCall(n), calls) = 2

\* C4: when done is closed and exactly one replica returned a non-nil
\* error E, the others nil, in.err is E and Wait returned nothing else.
C4_SingleErrorReturned ==
    \A n \in Ids :
        instances[n].done /\ Len(ErrsOf(rtnLog[n])) = 1 =>
            /\ instances[n].err = LastErr(rtnLog[n])
            /\ waitRet[n] \subseteq {LastErr(rtnLog[n])}

\* One of two replicas failed, Abort was called too, and Wait returned.
C4_Witness ==
    \E n \in Ids :
        /\ instances[n].done
        /\ rtnLog[n] = <<Nil, "E2">>
        /\ abortOrdered[n]
        /\ waitRet[n] = {"E2"}

\* C5: whenever the collector has received a non-nil error and is past the
\* select and close that follow it (so at the next receive or later), abort
\* is closed; in particular when done is closed.
C5_AbortAfterError ==
    \A n \in Ids :
        ErrsOf(rtnLog[n]) # <<>> /\ collector[n].pc \notin {"select", "close"} =>
            instances[n].abort

\* The collector is back at the receive after an error, abort is closed,
\* and another replica is still inside its Worker.
C5_Witness ==
    \E n \in Ids :
        /\ collector[n].pc = "recv"
        /\ rtnLog[n] = <<"E1">>
        /\ instances[n].abort
        /\ \E r \in 1..Len(replicas[n]) : replicas[n][r].pc = "run"

\* C6: no close is executed on an abort channel that is already closed:
\* at most one close per Instance.
C6_AbortClosedOnce == \A n \in Ids : closes[n].abort <= 1

\* C7: when done is closed, an Abort call returned before that, and every
\* replica returned nil, in.err is NonErrorAbort.
C7_AbortYieldsNonErrorAbort ==
    \A n \in Ids :
        instances[n].done /\ abortOrdered[n] /\ ErrsOf(rtnLog[n]) = <<>> =>
            instances[n].err = NonErrorAbort

\* C8: when done is closed, in.err is NonErrorAbort exactly when abort is
\* closed and no replica returned a non-nil error; an Instance whose abort
\* is closed has a non-nil err, one whose abort is open has not NonErrorAbort.
C8_NonErrorAbortIffAborted ==
    \A n \in Ids :
        instances[n].done =>
            /\ instances[n].err = NonErrorAbort <=>
                  (instances[n].abort /\ ErrsOf(rtnLog[n]) = <<>>)
            /\ instances[n].abort => instances[n].err # Nil
            /\ ~instances[n].abort => instances[n].err # NonErrorAbort

\* C9 as stated: when done is closed and every replica returned nil,
\* in.err is nil.
C9_Original ==
    \A n \in Ids :
        instances[n].done /\ ErrsOf(rtnLog[n]) = <<>> => instances[n].err = Nil

\* C9 amended: when done is closed, every replica returned nil and abort
\* was not closed (no Abort call took effect), in.err is nil and Wait
\* returned nothing but nil.
C9_NoErrorNoAbortNil ==
    \A n \in Ids :
        instances[n].done /\ ErrsOf(rtnLog[n]) = <<>> /\ ~instances[n].abort =>
            instances[n].err = Nil /\ waitRet[n] \subseteq {Nil}

\* Two replicas returned nil, nobody aborted, and Wait returned nil.
C9_Witness ==
    \E n \in Ids :
        /\ instances[n].done
        /\ rtnLog[n] = <<Nil, Nil>>
        /\ ~instances[n].abort
        /\ waitRet[n] = {Nil}

\* C10: once the collector received a non-nil error, in.err is the last
\* non-nil error in arrival order, at every later point of the run (a nil
\* received afterwards does not clear it), and Wait returns that error.
C10_LastErrorWins ==
    \A n \in Ids :
        ErrsOf(rtnLog[n]) # <<>> =>
            /\ instances[n].err = LastErr(rtnLog[n])
            /\ waitRet[n] \subseteq {LastErr(rtnLog[n])}

\* E1 arrived, then E2, and Wait returned E2.
C10_Witness ==
    \E n \in Ids :
        /\ rtnLog[n] = <<"E1", "E2">>
        /\ waitRet[n] = {"E2"}

\* C11: in.err changes only in a step of the Instance's collector, and
\* never in a step taken while done is closed, whatever that step is (Wait,
\* Abort, Add, AddCleaner, Start).
C11_ErrStep ==
    \A n \in Ids :
        /\ instances[n].done => instances'[n].err = instances[n].err
        /\ instances'[n].err # instances[n].err => collector'[n] # collector[n]

C11_ErrFrozenAfterDone == [][C11_ErrStep]_vars

\* After done was closed with a nil err, Abort closed abort, a cleaner was
\* added to the Group and Wait returned: err is still nil.
C11_Witness ==
    \E n \in Ids :
        /\ instances[n].done
        /\ instances[n].abort
        /\ instances[n].err = Nil
        /\ ~abortOrdered[n]
        /\ Len(cleaners) > Len(collector[n].cleaners)
        /\ waitRet[n] = {Nil}

\* What belongs to Instance n: its channels and err slot, its replicas and
\* its collector with the outstanding count.
Own(n) == <<instances[n], replicas[n], collector[n], rtnLog[n], cleanLog[n], closes[n]>>

\* C12: the Instances of one Group are independent: a step changes what
\* belongs to at most one Instance, and the abort, done and err of an Instance
\* change only in a step of its own collector or of an Abort call on it.
C12_Step ==
    \A n \in Ids :
        /\ instances'[n] # instances[n] =>
              \/ collector'[n] # collector[n]
              \/ CopiesIn(AbortCall(n), calls') < CopiesIn(AbortCall(n), calls)
        /\ \A m \in Ids \ {n} : Own(n)' # Own(n) => Own(m)' = Own(m)

C12_InstancesIndependent == [][C12_Step]_vars

C12_Witness ==
    /\ Len(instances) = 2
    /\ \A n \in Ids : Len(replicas[n]) = 1 /\ AllExited(n)
    /\ \E n, m \in Ids :
          /\ instances[n].done /\ instances[n].abort /\ instances[n].err \in Errors
          /\ instances[m].done /\ ~instances[m].abort /\ instances[m].err = Nil
          /\ waitRet[m] = {Nil}

\* C13: whatever Add and AddCleaner calls follow Start, the collector of an
\* Instance waits for as many completions as replicas were launched, over the
\* workers registered at Start; a replica that has begun executing executes
\* the Worker registered under its index; and the collector runs cleaners
\* that were registered when Start was called.
C13_AddAfterStartNoEffect ==
    \A n \in Ids :
        /\ collector[n].total = Len(replicas[n])
        /\ collector[n].total = SumSeq(SubSeq(counts, 1, LenAtStart(n)))
        /\ IsPrefix(collector[n].cleaners, cleaners)
        /\ \A r \in 1..Len(replicas[n]) :
              /\ replicas[n][r].pc # "panic"
              /\ replicas[n][r].pc \in {"run", "send"} =>
                    replicas[n][r].fn = workers[replicas[n][r].i]

\* The replicas of Instance n launched for worker index i.
ReplicasOf(reps, i) == {r \in 1..Len(reps) : reps[r].i = i}

\* C14, the Start step: the new Instance has, for each registered pair,
\* exactly counts[i] replicas of worker i, all not yet running and all on
\* the data of the call, and exactly one collector, whose total is the sum
\* of the registered counts.
C14_StartStep ==
    Len(instances') > Len(instances) =>
        LET n == Len(instances')
        IN  /\ n = Len(instances) + 1
            /\ Len(replicas') = n /\ Len(collector') = n
            /\ \A i \in 1..Len(workers) :
                  Cardinality(ReplicasOf(replicas'[n], i)) = counts[i]
            /\ \A r \in 1..Len(replicas'[n]) :
                  /\ replicas'[n][r].i \in 1..Len(workers)
                  /\ replicas'[n][r].pc = "start"
                  /\ replicas'[n][r].data = collector'[n].data
            /\ collector'[n].total = SumSeq(counts)
            /\ collector'[n].i = 0

\* C14, afterwards: the collector is in its receive loop while it has
\* received fewer than total results, and past it only with exactly total
\* results received, one from each replica; every replica keeps the data.
C14_State ==
    \A n \in Ids :
        /\ Len(replicas[n]) = collector[n].total
        /\ \A r \in 1..Len(replicas[n]) : replicas[n][r].data = collector[n].data
        /\ collector[n].pc = "recv" =>
              Len(rtnLog[n]) = collector[n].i /\ collector[n].i < collector[n].total
        /\ collector[n].pc \in {"select", "close"} =>
              Len(rtnLog[n]) = collector[n].i + 1 /\ collector[n].i < collector[n].total
        /\ collector[n].pc \notin {"recv", "select", "close"} =>
              Len(rtnLog[n]) = collector[n].total /\ AllExited(n)

C14_StartLaunchesCounts == [][C14_StartStep]_vars /\ []C14_State

C14_Witness ==
    \E n \in Ids :
        /\ collector[n].pc = "exit"
        /\ collector[n].total = 2
        /\ Len(rtnLog[n]) = 2
        /\ Len(workers) = 1

\* C15: the count stored for an Add call is runtime.NumCPU() when the
\* argument was zero or negative and the argument itself otherwise, so every
\* stored count is at least 1; and an Instance has that many replicas of each
\* Worker that was registered when it was started.
C15_CountDefaultsToNumCPU ==
    /\ Len(counts) = Len(argCounts)
    /\ \A i \in 1..Len(counts) :
          /\ argCounts[i] <= 0 => counts[i] = NumCPU
          /\ argCounts[i] > 0 => counts[i] = argCounts[i]
          /\ counts[i] >= 1
    /\ \A n \in Ids : \A i \in 1..LenAtStart(n) :
          Cardinality(ReplicasOf(replicas[n], i)) =
              IF argCounts[i] <= 0 THEN NumCPU ELSE argCounts[i]

C15_Witness ==
    \E n \in Ids :
        /\ argCounts = <<-1>>
        /\ Cardinality(ReplicasOf(replicas[n], 1)) = NumCPU
        /\ AllExited(n)

\* C16, one step: a Done() call that returns leaves the Group, the
\* Instances, their goroutines and the pending calls as they were; it
\* returns true exactly when done is closed at the call; and after a call
\* returned true no later call returns false.
C16_DoneStep ==
    \A n \in Ids :
        /\ doneRet'[n] # doneRet[n] =>
              /\ UNCHANGED <<groupVars, instances, replicas, collector, calls,
                             panicked, logVars, closes, abortOrdered>>
              /\ doneRet'[n] = IF instances[n].done THEN "true" ELSE "false"
        /\ doneRet[n] = "true" => doneRet'[n] = "true"

\* C16, every state: Done() can return at once whatever the Instance is
\* doing, and it has returned true only for an Instance whose done is closed.
C16_DoneState ==
    \A n \in Ids :
        /\ ~panicked => ENABLED DoneCall(n)
        /\ doneRet[n] = "true" => instances[n].done

C16_DonePollsDoneSignal == [][C16_DoneStep]_vars /\ []C16_DoneState

C16_Witness ==
    \E n \in Ids :
        /\ doneRet[n] = "true"
        /\ instances[n].done
        /\ collector[n].total > 0
        /\ BagIn(WaitCall(n), calls)

\* C18: an Instance is created with abort and done open, and no step opens
\* a closed abort or a closed done again.
C18_SignalStep ==
    /\ \A n \in Ids :
          /\ instances[n].abort => instances'[n].abort
          /\ instances[n].done => instances'[n].done
    /\ \A n \in (1..Len(instances')) \ Ids :
          ~instances'[n].abort /\ ~instances'[n].done

C18_SignalsMonotonic == [][C18_SignalStep]_vars

C18_Witness ==
    \E n \in Ids :
        /\ instances[n].abort
        /\ instances[n].done
        /\ doneRet[n] = "true"
        /\ waitRet[n] # {}
        /\ Len(replicas[n]) > 0

\* Some step of the collector of Instance n can be taken.
CollectorCanStep(n) ==
    ENABLED (CleanerCall(n) \/ CleanerReturn(n) \/ RunFinal(n) \/ RunCloseDone(n))

\* C20: an Instance started with no Workers has a collector that waits for
\* zero completions: it never stands at the receive and receives nothing;
\* it calls the cleaners in order and has called them all when done is
\* closed; until then, in a live program, its next step can always be taken;
\* and with abort never closed its err, and so what Wait returns, is nil.
C20_NoWorkers ==
    \A n \in Ids :
        replicas[n] = <<>> =>
            /\ collector[n].total = 0
            /\ collector[n].pc \notin {"recv", "select", "close"}
            /\ rtnLog[n] = <<>>
            /\ IsPrefix(cleanLog[n], CleanerEvents(collector[n].cleaners, collector[n].data))
            /\ instances[n].done =>
                  cleanLog[n] = CleanerEvents(collector[n].cleaners, collector[n].data)
            /\ ~instances[n].done /\ ~panicked => CollectorCanStep(n)
            /\ ~instances[n].abort => instances[n].err = Nil /\ waitRet[n] \subseteq {Nil}

C20_Witness ==
    \E n \in Ids :
        /\ replicas[n] = <<>>
        /\ instances[n].done
        /\ ~instances[n].abort
        /\ Len(cleanLog[n]) = 2 * MaxCleaners
        /\ waitRet[n] = {Nil}

\* Instance n is done, with the result of every replica received and every
\* worker goroutine gone.
RunComplete(n) ==
    /\ n \in Ids
    /\ instances[n].done
    /\ AllExited(n)
    /\ Len(rtnLog[n]) = Len(replicas[n])

\* A Wait call on Instance n has returned.
WaitReturned(n) == n \in Ids /\ waitRet[n] # {}

\* C19: under fair scheduling, with every Worker and Cleaner returning, an
\* Instance that was started gets its done closed with every replica's
\* result received and no worker goroutine left, and pending Wait calls
\* return: one returns whenever one is pending, and the calls in flight
\* never stay at their maximum.
C19_EventuallyDone ==
    \A n \in {1} :
        /\ (n \in Ids) ~> RunComplete(n)
        /\ (n \in Ids /\ BagIn(WaitCall(n), calls)) ~> WaitReturned(n)
        /\ (n \in Ids /\ CopiesIn(WaitCall(n), calls) = MaxCalls) ~>
              (CopiesIn(WaitCall(n), calls) < MaxCalls)

\* The same, for the runs in which no goroutine panics.
C19_DoneUnlessPanic ==
    \A n \in {1} :
        /\ (n \in Ids) ~> (panicked \/ RunComplete(n))
        /\ (n \in Ids /\ BagIn(WaitCall(n), calls)) ~> (panicked \/ WaitReturned(n))
        /\ (n \in Ids /\ CopiesIn(WaitCall(n), calls) = MaxCalls) ~>
              (panicked \/ CopiesIn(WaitCall(n), calls) < MaxCalls)

\* Example has ended: wg.Run(nil) returned nil after the Instance got done,
\* every goroutine is gone, and the one line printed is AllReceived.
ExFinished ==
    /\ Len(instances) = 1
    /\ instances[1].done
    /\ AllExited(1)
    /\ collector[1].pc = "exit"
    /\ calls = EmptyBag
    /\ waitRet[1] = {Nil}
    /\ ex.output = <<AllReceived>>

\* What holds throughout: no panic, no error and no abort in the collector,
\* Run returns nothing but nil, and when the cleaner has printed, every flag
\* of results is set and the line is AllReceived.
ExSafe ==
    /\ ~panicked
    /\ \A n \in Ids :
          /\ ~instances[n].abort
          /\ instances[n].err = Nil
          /\ collector[n].pc \notin {"select", "close"}
          /\ waitRet[n] \subseteq {Nil}
    /\ ex.output # <<>> =>
          /\ \A k \in 0..(ExTotal - 1) : ex.results[k]
          /\ ex.output = <<AllReceived>>

\* C17: under fair scheduling and with no Abort, every run of Example ends
\* (no deadlock on either channel, no goroutine left), with every flag of
\* results set when the cleaner runs, AllReceived printed, and nil returned
\* by Run.
C17_ExampleCompletes == <>ExFinished /\ []ExSafe

C17_Witness ==
    /\ ExFinished
    /\ \A k \in 0..(ExTotal - 1) : ex.results[k]
    /\ ex.in = <<>> /\ ex.inClosed /\ ex.out = <<>>

====
